---- MODULE Spec2Model ----
(***************************************************************************)
(* Model of src/run.py: the bootstrap script that loads the environment,   *)
(* creates one session, constructs a Runner around sre_pipeline, calls     *)
(* runner.run once and prints every item of the result stream.             *)
(*                                                                         *)
(* The collaborators (session service, Runner, result generator, stdout)   *)
(* are black boxes: each call either succeeds or raises, chosen            *)
(* nondeterministically.  Exceptions are Exception subclasses; external    *)
(* interruption (KeyboardInterrupt, SystemExit) is not modelled.           *)
(***************************************************************************)
EXTENDS Integers, Sequences, FiniteSets, TLC

VARIABLES
    pc,          \* position of the script
    envLoaded,   \* load_dotenv() ran and sys.path was adjusted
    serviceUp,   \* session_service has been constructed
    sessions,    \* keys held by the in-memory session service
    createCalls, \* arguments of every create_session call, in order
    runners,     \* Runner instances constructed, in order
    runCalls,    \* arguments of every runner.run call, in order
    yielded,     \* items the result generator has yielded so far
    requested,   \* number of times the for loop asked the generator for an item
    output,      \* what the reporting loop has printed, in order
    attempts,    \* every pprint/print call of the reporting loop, in order
    raised,      \* every exception a call has raised, caught or not, in order
    exc,         \* the exception that terminated the process, or "none"
    exitCode     \* {} while running, {code} once the process has exited

vars == <<pc, envLoaded, serviceUp, sessions, createCalls, runners, runCalls,
          yielded, requested, output, attempts, raised, exc, exitCode>>

\* Longest result stream explored.
MaxItems == 3

\* Payloads that tell result items apart.
Vals == {"a", "b"}

\* A result item: whether isinstance(result, dict) holds, whether the pprint
\* call of its branch returns normally, whether print(str(result)) does.
Items ==
    { [isDict |-> d, ppOk |-> p, strOk |-> s, val |-> v] :
        d \in BOOLEAN, p \in BOOLEAN, s \in BOOLEAN, v \in Vals }

\* Exceptions the result generator may raise.
StreamErrors == {"StreamError1", "StreamError2"}

CreateSessionArgs_other ==
    [user_id |-> "u1", session_id |-> "sess2", app_name |-> "agents"]

\* The keyword arguments of the create_session call.
CreateSessionArgs ==
    [user_id |-> "u1", session_id |-> "sess1", app_name |-> "agents"]

\* The keyword arguments of the Runner constructor (the session service is
\* the one and only service, so it is not recorded).
RunnerArgs ==
    [agent |-> "sre_pipeline", app_name |-> "agents"]

RunArgs_wrongSession ==
    [user_id |-> "u1", session_id |-> "sess",
     new_message |-> [role |-> "user", parts |-> <<[text |-> "run"]>>]]

\* The keyword arguments of the runner.run call; UserContent([Part(text="run")])
\* is a content of role "user" with one text part.
RunArgs ==
    [user_id |-> "u1", session_id |-> "sess1",
     new_message |-> [role |-> "user", parts |-> <<[text |-> "run"]>>]]

\* The loop variable: the item most recently obtained from the generator.
result == yielded[Len(yielded)]

\* What each print call of the reporting loop writes.
PrintDict(r) == [form |-> "dict", val |-> r.val]
PrintAttrs(r) == [form |-> "attrs", val |-> r.val]
PrintStr(r) == [form |-> "str", val |-> r.val]

Emit_prepend(out, line) == <<line>> \o out

\* A print call that returns normally adds one entry at the end of stdout.
Emit(out, line) == Append(out, line)

\* One pprint/print call on item number i through the given branch.
Attempt(i, b, ok) == [idx |-> i, branch |-> b, ok |-> ok]

Crash_exit0(e) ==
    /\ raised' = Append(raised, e)
    /\ pc' = "crashed"
    /\ exc' = e
    /\ exitCode' = {0}

\* A call returns normally: nothing is raised and the process keeps running.
Return == UNCHANGED <<raised, exc, exitCode>>

\* An exception nobody catches: the interpreter prints the traceback and
\* exits with status 1.
Crash(e) ==
    /\ raised' = Append(raised, e)
    /\ pc' = "crashed"
    /\ exc' = e
    /\ exitCode' = {1}

Init ==
    /\ pc = "setup"
    /\ envLoaded = FALSE
    /\ serviceUp = FALSE
    /\ sessions = {}
    /\ createCalls = <<>>
    /\ runners = <<>>
    /\ runCalls = <<>>
    /\ yielded = <<>>
    /\ requested = 0
    /\ output = <<>>
    /\ attempts = <<>>
    /\ raised = <<>>
    /\ exc = "none"
    /\ exitCode = {}

\* Lines 13-23: import dotenv, load_dotenv(), sys.path.insert(0, current_dir).
Setup ==
    /\ pc = "setup"
    /\ \/ /\ envLoaded' = TRUE
          /\ pc' = "imports"
          /\ Return
       \/ /\ Crash("ImportError")
          /\ UNCHANGED envLoaded
    /\ UNCHANGED <<serviceUp, sessions, createCalls, runners, runCalls,
                   yielded, requested, output, attempts>>

\* Lines 27-31: import the framework and pipeline.sre_pipeline.
LoadModules ==
    /\ pc = "imports"
    /\ \/ /\ pc' = "new_service"
          /\ Return
       \/ Crash("ImportError")
    /\ UNCHANGED <<envLoaded, serviceUp, sessions, createCalls, runners,
                   runCalls, yielded, requested, output, attempts>>

\* Line 35: session_service = InMemorySessionService().
NewService ==
    /\ pc = "new_service"
    /\ serviceUp' = TRUE
    /\ sessions' = {}
    /\ pc' = "create_session"
    /\ UNCHANGED <<envLoaded, createCalls, runners, runCalls, yielded,
                   requested, output, attempts, raised, exc, exitCode>>

CreateSession_swallow ==
    /\ pc = "create_session"
    /\ serviceUp
    /\ createCalls' = Append(createCalls, CreateSessionArgs)
    /\ \/ /\ CreateSessionArgs \notin sessions
          /\ sessions' = sessions \cup {CreateSessionArgs}
          /\ UNCHANGED raised
       \/ /\ UNCHANGED sessions
          /\ raised' = Append(raised, "SessionError")
    /\ pc' = "new_runner"
    /\ UNCHANGED <<exc, exitCode>>
    /\ UNCHANGED <<envLoaded, serviceUp, runners, runCalls, yielded,
                   requested, output, attempts>>

CreateSession_retry ==
    /\ pc = "create_session"
    /\ serviceUp
    /\ createCalls' = Append(createCalls, CreateSessionArgs)
    /\ \/ /\ CreateSessionArgs \notin sessions
          /\ sessions' = sessions \cup {CreateSessionArgs}
          /\ pc' = "new_runner"
          /\ Return
       \/ /\ UNCHANGED sessions
          /\ IF Len(createCalls) = 0
             THEN /\ raised' = Append(raised, "SessionError")
                  /\ UNCHANGED <<pc, exc, exitCode>>
             ELSE Crash("SessionError")
    /\ UNCHANGED <<envLoaded, serviceUp, runners, runCalls, yielded,
                   requested, output, attempts>>

\* Line 38: asyncio.run(session_service.create_session(...)).  The call
\* either stores the session under its key or raises; nothing catches it.
CreateSession ==
    /\ pc = "create_session"
    /\ serviceUp
    /\ createCalls' = Append(createCalls, CreateSessionArgs)
    /\ \/ /\ CreateSessionArgs \notin sessions
          /\ sessions' = sessions \cup {CreateSessionArgs}
          /\ pc' = "new_runner"
          /\ Return
       \/ /\ UNCHANGED sessions
          /\ Crash("SessionError")
    /\ UNCHANGED <<envLoaded, serviceUp, runners, runCalls, yielded,
                   requested, output, attempts>>

\* Lines 40-44: runner = Runner(agent=sre_pipeline, app_name="agents", ...).
ConstructRunner ==
    /\ pc = "new_runner"
    /\ \/ /\ runners' = Append(runners, RunnerArgs)
          /\ pc' = "run"
          /\ Return
       \/ /\ UNCHANGED runners
          /\ Crash("RunnerError")
    /\ UNCHANGED <<envLoaded, serviceUp, sessions, createCalls, runCalls,
                   yielded, requested, output, attempts>>

Run_early ==
    /\ pc \in {"create_session", "run"}
    /\ runCalls' = Append(runCalls, RunArgs)
    /\ \/ /\ pc' = "next"
          /\ Return
       \/ Crash("RunnerError")
    /\ UNCHANGED <<envLoaded, serviceUp, sessions, createCalls, runners,
                   yielded, requested, output, attempts>>

\* Lines 46-52: result_gen = runner.run(user_id, session_id, new_message).
Run ==
    /\ pc = "run"
    /\ runCalls' = Append(runCalls, RunArgs)
    /\ \/ /\ pc' = "next"
          /\ Return
       \/ Crash("RunnerError")
    /\ UNCHANGED <<envLoaded, serviceUp, sessions, createCalls, runners,
                   yielded, requested, output, attempts>>

NextItem_catch ==
    /\ pc = "next"
    /\ requested' = requested + 1
    /\ \/ /\ Len(yielded) < MaxItems
          /\ \E r \in Items : yielded' = Append(yielded, r)
          /\ pc' = "render"
          /\ Return
       \/ /\ UNCHANGED yielded
          /\ pc' = "done"
          /\ exitCode' = {0}
          /\ UNCHANGED <<raised, exc>>
       \/ /\ UNCHANGED yielded
          /\ \E e \in StreamErrors :
                /\ raised' = Append(raised, e)
                /\ UNCHANGED exc
                /\ pc' = "done"
                /\ exitCode' = {0}
    /\ UNCHANGED <<envLoaded, serviceUp, sessions, createCalls, runners,
                   runCalls, output, attempts>>

\* Line 53: the for loop asks result_gen for its next item.  The generator
\* yields an item, is exhausted (the loop and the script end), or raises.
NextItem ==
    /\ pc = "next"
    /\ requested' = requested + 1
    /\ \/ /\ Len(yielded) < MaxItems
          /\ \E r \in Items : yielded' = Append(yielded, r)
          /\ pc' = "render"
          /\ Return
       \/ /\ UNCHANGED yielded
          /\ pc' = "done"
          /\ exitCode' = {0}
          /\ UNCHANGED <<raised, exc>>
       \/ /\ UNCHANGED yielded
          /\ \E e \in StreamErrors : Crash(e)
    /\ UNCHANGED <<envLoaded, serviceUp, sessions, createCalls, runners,
                   runCalls, output, attempts>>

RenderItem_attrsFirst ==
    /\ pc = "render"
    /\ IF result.ppOk
       THEN /\ output' = Emit(output, PrintAttrs(result))
            /\ attempts' = Append(attempts, Attempt(Len(yielded), "attrs", TRUE))
            /\ pc' = "next"
            /\ Return
       ELSE /\ attempts' = Append(attempts, Attempt(Len(yielded), "attrs", FALSE))
            /\ raised' = Append(raised, "AttrsError")
            /\ pc' = "fallback"
            /\ UNCHANGED <<output, exc, exitCode>>
    /\ UNCHANGED <<envLoaded, serviceUp, sessions, createCalls, runners,
                   runCalls, yielded, requested>>

RenderItem_noTry ==
    /\ pc = "render"
    /\ IF result.isDict
       THEN /\ attempts' = Append(attempts, Attempt(Len(yielded), "dict", result.ppOk))
            /\ IF result.ppOk
               THEN /\ output' = Emit(output, PrintDict(result))
                    /\ pc' = "next"
                    /\ Return
               ELSE /\ Crash("PrintError")
                    /\ UNCHANGED output
       ELSE /\ attempts' = Append(attempts, Attempt(Len(yielded), "attrs", result.ppOk))
            /\ IF result.ppOk
               THEN /\ output' = Emit(output, PrintAttrs(result))
                    /\ pc' = "next"
                    /\ Return
               ELSE /\ Crash("AttrsError")
                    /\ UNCHANGED output
    /\ UNCHANGED <<envLoaded, serviceUp, sessions, createCalls, runners,
                   runCalls, yielded, requested>>

\* Lines 54-59: a dict is pretty-printed as it is, outside any try; any other
\* item has its __dict__ pretty-printed inside try/except Exception.
RenderItem ==
    /\ pc = "render"
    /\ IF result.isDict
       THEN /\ attempts' = Append(attempts, Attempt(Len(yielded), "dict", result.ppOk))
            /\ IF result.ppOk
               THEN /\ output' = Emit(output, PrintDict(result))
                    /\ pc' = "next"
                    /\ Return
               ELSE /\ Crash("PrintError")
                    /\ UNCHANGED output
       ELSE /\ attempts' = Append(attempts, Attempt(Len(yielded), "attrs", result.ppOk))
            /\ IF result.ppOk
               THEN /\ output' = Emit(output, PrintAttrs(result))
                    /\ pc' = "next"
                    /\ Return
               ELSE /\ raised' = Append(raised, "AttrsError")
                    /\ pc' = "fallback"
                    /\ UNCHANGED <<output, exc, exitCode>>
    /\ UNCHANGED <<envLoaded, serviceUp, sessions, createCalls, runners,
                   runCalls, yielded, requested>>

\* Line 60: print(str(result)) inside the except clause; unguarded.
Fallback ==
    /\ pc = "fallback"
    /\ attempts' = Append(attempts, Attempt(Len(yielded), "str", result.strOk))
    /\ IF result.strOk
       THEN /\ output' = Emit(output, PrintStr(result))
            /\ pc' = "next"
            /\ Return
       ELSE /\ Crash("PrintError")
            /\ UNCHANGED output
    /\ UNCHANGED <<envLoaded, serviceUp, sessions, createCalls, runners,
                   runCalls, yielded, requested>>

Next ==
    \/ Setup
    \/ LoadModules
    \/ NewService
    \/ CreateSession
    \/ ConstructRunner
    \/ Run
    \/ NextItem
    \/ RenderItem
    \/ Fallback

Spec == Init /\ [][Next]_vars

\* The script is a single sequential process: it always takes its next step.
FairSpec == Spec /\ WF_vars(Next)

----------------------------------------------------------------------------
(* Helpers of the properties. *)

Last(s) == s[Len(s)]

\* The exceptions that nothing in the script catches.
Fatal == {"ImportError", "SessionError", "RunnerError", "PrintError"} \cup StreamErrors

\* Items whose handling by the loop body is over.
Handled ==
    IF pc \in {"render", "fallback"} THEN 1..(Len(yielded) - 1) ELSE 1..Len(yielded)

\* The branches tried on item number i, in order.
BranchesOf(i) ==
    LET OfItem(a) == a.idx = i
        s == SelectSeq(attempts, OfItem)
    IN  [j \in 1..Len(s) |-> s[j].branch]

\* The line the fallback chain is specified to print for an item.
Rendering(r) ==
    IF r.isDict THEN [form |-> "dict", val |-> r.val]
    ELSE IF r.ppOk THEN [form |-> "attrs", val |-> r.val]
    ELSE [form |-> "str", val |-> r.val]

\* The phase of the bootstrap, read off what it has done so far.
Phase ==
    IF pc = "crashed" THEN "Crashed"
    ELSE IF pc = "done" THEN "Done"
    ELSE IF runCalls # <<>> THEN "Executing"
    ELSE IF runners # <<>> THEN "RunnerConstructed"
    ELSE IF sessions # {} THEN "SessionCreated"
    ELSE IF envLoaded THEN "EnvironmentLoaded"
    ELSE "Uninitialized"

PhaseOrder ==
    <<"Uninitialized", "EnvironmentLoaded", "SessionCreated",
      "RunnerConstructed", "Executing", "Done">>

Rank(p) == CHOOSE i \in 1..Len(PhaseOrder) : PhaseOrder[i] = p

----------------------------------------------------------------------------
\* C1: create_session is never invoked more than once, every invocation has
\* the identifiers ("u1", "sess1", "agents"), and once the script is past
\* line 38 (running, finished, or crashed there or later) it has been
\* invoked exactly once.
C1_OneSession ==
    /\ Len(createCalls) <= 1
    /\ \A i \in 1..Len(createCalls) :
          createCalls[i] =
              [user_id |-> "u1", session_id |-> "sess1", app_name |-> "agents"]
    /\ (pc \in {"new_runner", "run", "next", "render", "fallback", "done"}
          => Len(createCalls) = 1)
    /\ (pc = "crashed" /\ exc # "ImportError" => Len(createCalls) = 1)

C1_Witness ==
    /\ pc = "crashed"
    /\ exc \in StreamErrors
    /\ Len(output) >= 2
    /\ Len(createCalls) = 1

\* C2: when the create_session call raises, the process is crashed with that
\* failure, no Runner has been constructed, runner.run has not been called,
\* no item has been requested and nothing has been printed.
C2_SessionFailureIsFatal ==
    (\E i \in 1..Len(raised) : raised[i] = "SessionError")
        => /\ pc = "crashed"
           /\ exc = "SessionError"
           /\ raised = <<"SessionError">>
           /\ runners = <<>>
           /\ runCalls = <<>>
           /\ requested = 0
           /\ attempts = <<>>
           /\ output = <<>>

C2_Witness ==
    /\ raised = <<"SessionError">>
    /\ pc = "crashed"
    /\ Len(createCalls) = 1

\* C3: when the result generator raises after yielding k items, the process
\* is crashed with that very exception, the k items and only they have been
\* printed, and the raising request is the last one made.
C3_StreamFailurePropagates ==
    (\E i \in 1..Len(raised) : raised[i] \in StreamErrors)
        => /\ pc = "crashed"
           /\ Last(raised) \in StreamErrors
           /\ exc = Last(raised)
           /\ \A i \in 1..(Len(raised) - 1) : raised[i] \notin Fatal
           /\ Len(output) = Len(yielded)
           /\ \A i \in 1..Len(yielded) : output[i] = Rendering(yielded[i])
           /\ requested = Len(yielded) + 1

C3_Witness ==
    /\ pc = "crashed"
    /\ exc = "StreamError2"
    /\ Len(yielded) = 2
    /\ Len(output) = 2

\* C4: every handled item went through the branches its kind selects: a dict
\* only through the dict branch, a non-dict whose attribute dictionary
\* prints only through the attribute branch, a non-dict for which that
\* attempt raises through the attribute branch and then the string branch;
\* every line printed has the form of the branch that printed it.
C4_FallbackChain ==
    /\ \A i \in Handled :
          BranchesOf(i) =
              IF yielded[i].isDict THEN <<"dict">>
              ELSE IF yielded[i].ppOk THEN <<"attrs">>
              ELSE <<"attrs", "str">>
    /\ \A j \in 1..Len(attempts) :
          yielded[attempts[j].idx].isDict => attempts[j].branch = "dict"
    /\ \A i \in 1..Len(output) :
          output[i].form =
              IF yielded[i].isDict THEN "dict"
              ELSE IF yielded[i].ppOk THEN "attrs"
              ELSE "str"

C4_Witness ==
    /\ pc = "done"
    /\ Len(output) = 3
    /\ {output[i].form : i \in 1..3} = {"dict", "attrs", "str"}

\* C5: the lines printed are, in order, the renderings of the items yielded
\* so far, one line per item; at most the newest item is still unprinted, no
\* item is requested while one is unprinted, and when the loop ends every
\* yielded item has been printed.
C5_InOrderOneAtATime ==
    /\ Len(output) <= Len(yielded)
    /\ Len(yielded) <= Len(output) + 1
    /\ \A i \in 1..Len(output) : output[i] = Rendering(yielded[i])
    /\ requested <= Len(output) + 1
    /\ (pc = "next" => requested = Len(output) /\ Len(output) = Len(yielded))
    /\ (pc = "done" => Len(output) = Len(yielded))

C5_Witness ==
    /\ pc = "done"
    /\ Len(output) >= 2
    /\ output[1] # output[2]
    /\ requested = Len(yielded) + 1

C7_PhaseStep ==
    \/ /\ Phase \notin {"Done", "Crashed"}
       /\ Phase' = Phase
    \/ /\ Phase \notin {"Done", "Crashed"}
       /\ Phase' = "Crashed"
    \/ /\ Phase \notin {"Done", "Crashed"}
       /\ Phase' # "Crashed"
       /\ Rank(Phase') = Rank(Phase) + 1

C7_PhaseOrder ==
    /\ [][C7_PhaseStep]_vars
    /\ [](runCalls # <<>> =>
            /\ Len(createCalls) = 1
            /\ sessions # {}
            /\ Len(runners) = 1)

C7_Witness ==
    /\ Phase = "Done"
    /\ Len(output) >= 1

\* C8 as stated: no failed print call, in whichever branch, ends the process.
C8_Original ==
    \A j \in 1..Len(attempts) :
        ~attempts[j].ok => ~(pc = "crashed" /\ exc = "PrintError")

\* C8 amended: a failed print of a non-dict item's attribute dictionary does
\* not end the loop: the string branch is tried on the same item next; a
\* failed print in the dict branch or in the string branch is the last thing
\* the process does and crashes it; every print that succeeded is a line of
\* the output.
C8_OnlyAttrsFailureIsSurvived ==
    /\ \A j \in 1..Len(attempts) :
          ~attempts[j].ok =>
              IF attempts[j].branch = "attrs"
              THEN /\ raised # <<>>
                   /\ (j = Len(attempts) => pc = "fallback" /\ exc = "none")
                   /\ (j < Len(attempts) =>
                          /\ attempts[j + 1].idx = attempts[j].idx
                          /\ attempts[j + 1].branch = "str")
              ELSE /\ j = Len(attempts)
                   /\ pc = "crashed"
                   /\ exc = "PrintError"
    /\ Len(output) = Cardinality({j \in 1..Len(attempts) : attempts[j].ok})

C8_Witness ==
    \E j \in 1..Len(attempts) :
        /\ ~attempts[j].ok
        /\ attempts[j].branch = "attrs"
        /\ \E k \in 1..Len(attempts) :
              /\ attempts[k].idx > attempts[j].idx
              /\ attempts[k].ok
        /\ pc = "done"

\* C9: create_session, the Runner constructor and runner.run are each called
\* at most once, and after an exception nothing catches has been raised no
\* further call, request or print is made.
C9_AfterFailure ==
    (raised # <<>> /\ Last(raised) \in Fatal)
        => UNCHANGED <<createCalls, runners, runCalls, requested, attempts,
                       output, sessions>>

C9_NoRetry ==
    /\ [](Len(createCalls) <= 1 /\ Len(runners) <= 1 /\ Len(runCalls) <= 1)
    /\ [][C9_AfterFailure]_vars

C9_Witness ==
    /\ raised # <<>>
    /\ Last(raised) = "PrintError"
    /\ Len(runCalls) = 1
    /\ Len(output) >= 1

\* C10: the one runner.run call names user "u1" and session "sess1", its
\* Runner has app_name "agents", the three together are the key given to
\* create_session and a session with that key is in the session service, and
\* the message is one user content with the single text part "run".
C10_RunTargetsCreatedSession ==
    runCalls # <<>> =>
        /\ Len(runCalls) = 1
        /\ Len(runners) = 1
        /\ runCalls[1].user_id = "u1"
        /\ runCalls[1].session_id = "sess1"
        /\ runners[1].app_name = "agents"
        /\ createCalls =
              << [user_id |-> runCalls[1].user_id,
                  session_id |-> runCalls[1].session_id,
                  app_name |-> runners[1].app_name] >>
        /\ [user_id |-> runCalls[1].user_id,
            session_id |-> runCalls[1].session_id,
            app_name |-> runners[1].app_name] \in sessions
        /\ runCalls[1].new_message =
              [role |-> "user", parts |-> <<[text |-> "run"]>>]

C10_Witness ==
    /\ pc = "next"
    /\ Len(runCalls) = 1
    /\ requested = 0

====
